---- MODULE Spec2Model ----
(***************************************************************************)
(* Model of dicom_anonymizer.py: the batch driver (main), the session      *)
(* processor (process_folder) run by a pool of workers, the identity       *)
(* extractor (extract_id_sex_age) and the record anonymiser (anonymise).   *)
(*                                                                         *)
(* A path is a sequence of characters.  The marker words the program       *)
(* searches for ("T2_AX", "T2_SAG", "DICOM", "EXP00000", "Anonymised",     *)
(* "EXP", ".dcm") and the dataset root ("data") are single letters of the  *)
(* alphabet; digits, the blank, "F", "M" and "/" are themselves.           *)
(***************************************************************************)
EXTENDS Integers, Sequences, FiniteSets, TLC

\* ------------------------------------------------------------------ bounds
MaxClock == 2
NumWorkers == 2

Workers == 1..NumWorkers

\* ------------------------------------------------------- string primitives
Digits == {"0", "1", "2", "3", "4", "5", "6", "7", "8", "9"}

DigitChar(n) ==
    CASE n = 0 -> "0" [] n = 1 -> "1" [] n = 2 -> "2" [] n = 3 -> "3"
      [] n = 4 -> "4" [] n = 5 -> "5" [] n = 6 -> "6" [] n = 7 -> "7"
      [] n = 8 -> "8" [] n = 9 -> "9"

\* Code point order of the characters that occur in file names.
Ord(c) ==
    CASE c = " " -> 32 [] c = "/" -> 47
      [] c = "0" -> 48 [] c = "1" -> 49 [] c = "2" -> 50 [] c = "3" -> 51
      [] c = "4" -> 52 [] c = "5" -> 53 [] c = "6" -> 54 [] c = "7" -> 55
      [] c = "8" -> 56 [] c = "9" -> 57
      [] c = "F" -> 70 [] c = "M" -> 77
      [] c = "a" -> 97 [] c = "b" -> 98 [] c = "c" -> 99
      [] OTHER -> 200

\* s < t for Python strings.
RECURSIVE StrLess(_, _)
StrLess(s, t) ==
    IF t = <<>> THEN FALSE
    ELSE IF s = <<>> THEN TRUE
    ELSE IF Ord(Head(s)) # Ord(Head(t)) THEN Ord(Head(s)) < Ord(Head(t))
    ELSE StrLess(Tail(s), Tail(t))

\* pat occurs in s at position p (1-based).
OccursAt(s, pat, p) ==
    /\ p >= 1
    /\ p + Len(pat) - 1 <= Len(s)
    /\ SubSeq(s, p, p + Len(pat) - 1) = pat

\* pat in s
Contains(s, pat) == \E p \in 1..Len(s) : OccursAt(s, pat, p)

\* re.sub(pat, rep, s) for a pattern of literal characters: every
\* non-overlapping occurrence, leftmost first, is replaced.
RECURSIVE ReSub(_, _, _)
ReSub(pat, rep, s) ==
    IF s = <<>> THEN <<>>
    ELSE IF OccursAt(s, pat, 1)
         THEN rep \o ReSub(pat, rep, SubSeq(s, Len(pat) + 1, Len(s)))
         ELSE <<Head(s)>> \o ReSub(pat, rep, Tail(s))

\* re.sub(word + '(.*)', '', s): the first occurrence of word and all that
\* follows it is removed.
ReSubToEnd(word, s) ==
    IF Contains(s, word)
    THEN LET p == CHOOSE q \in 1..Len(s) :
                     /\ OccursAt(s, word, q)
                     /\ \A r \in 1..(q - 1) : ~OccursAt(s, word, r)
         IN  SubSeq(s, 1, p - 1)
    ELSE s

\* os.path.join(a, b)
PathJoin(a, b) ==
    IF b # <<>> /\ Head(b) = "/" THEN b
    ELSE IF a = <<>> \/ a[Len(a)] = "/" THEN a \o b
    ELSE a \o <<"/">> \o b

\* str.zfill(width)
RECURSIVE ZFill(_, _)
ZFill(s, width) == IF Len(s) >= width THEN s ELSE ZFill(<<"0">> \o s, width)

\* ------------------------------------------------------------ field tables
DATE_FIELDS == {"DateOfLastCalibration", "PatientBirthDate"}
TIME_FIELDS == {"TimeOfLastCalibration"}
NAME_FIELDS == {"InstitutionName", "InstitutionAddress", "ReferringPhysicianName"}
COMMENT_FIELDS == {"ImageComments"}
ID_FIELDS == {"IrradiationEventUID"}
META_FIELDS == {"PrivateInformationCreatorUID", "PrivateInformation"}
SEQUENCE_FIELDS == {"RequestAttributesSequence"}

\* Tags of the vendor-private groups, the ones remove_private_tags() drops.
PrivateTags == {"Private_0009_0010"}

\* Elements whose value is a sequence of nested records (each a function
\* from the tags present to their values); every other value is a string.
SequenceTags == {"RequestAttributesSequence", "ContributingEquipmentSequence"}

FixedDate == <<"2", "0", "2", "5", "0", "4", "1", "9">>
FixedTime == <<"0", "9", "4", "3", "3", "8">>

\* --------------------------------------------------------- identity extractor
\* Last position of the run of digits that starts at p.
RECURSIVE DigitRunEnd(_, _)
DigitRunEnd(s, p) ==
    IF p + 1 <= Len(s) /\ s[p + 1] \in Digits THEN DigitRunEnd(s, p + 1) ELSE p

\* r'\d+ F \d+|\d+ M \d+' matches s from position p on.
MatchAt(s, p) ==
    /\ p \in 1..Len(s)
    /\ s[p] \in Digits
    /\ LET q == DigitRunEnd(s, p)
       IN  /\ q + 4 <= Len(s)
           /\ s[q + 1] = " "
           /\ s[q + 2] \in {"F", "M"}
           /\ s[q + 3] = " "
           /\ s[q + 4] \in Digits

\* re.search(...): the leftmost match, extract_id_sex_age's three tokens.
\* No match makes s None, and s.group raises.
extract_id_sex_age(path) ==
    IF \E p \in 1..Len(path) : MatchAt(path, p)
    THEN LET p == CHOOSE x \in 1..Len(path) :
                     /\ MatchAt(path, x)
                     /\ \A y \in 1..(x - 1) : ~MatchAt(path, y)
             q == DigitRunEnd(path, p)
             e == DigitRunEnd(path, q + 4)
         IN  [ok |-> TRUE,
              id |-> SubSeq(path, p, q),
              sex |-> <<path[q + 2]>>,
              age |-> SubSeq(path, q + 4, e)]
    ELSE [ok |-> FALSE, id |-> <<>>, sex |-> <<>>, age |-> <<>>]

\* ------------------------------------------------------------------- clock
\* datetime.now().strftime("%Y%m%d%H%M%S") at second t of one minute.
ClockMinute == <<"2", "0", "2", "6", "1", "1", "0", "1", "1", "2", "0", "0">>

TwoDigits(t) == <<DigitChar(t \div 10), DigitChar(t % 10)>>

strftime(t) == ClockMinute \o TwoDigits(t)

\* strftime(...)[2:]
TimestampToken(t) == SubSeq(strftime(t), 3, Len(strftime(t)))

\* date_time is unbound when the session is judged not new (no assignment).
Unbound == <<"<unbound>">>

\* -------------------------------------------------------- record anonymiser
\* f without the keys in ks.
Without(f, ks) == [t \in DOMAIN f \ ks |-> f[t]]

\* f with value v at every key of ks that f has.
SetPresent(f, ks, v) == [t \in DOMAIN f |-> IF t \in ks THEN v ELSE f[t]]

\* PresentKeys, were the deletion not guarded by "if k in d".
PresentKeys_Unguarded(f, ks) == ks

\* lines 87-88: the keys of ks that "if k in d" lets del reach.
PresentKeys(f, ks) == ks \cap DOMAIN f

\* line 72: remove_private_tags() walks the record and the items of its
\* sequences and deletes every private element.
RemovePrivateTags(elems) ==
    [t \in DOMAIN elems \ PrivateTags |->
        IF t \in SequenceTags
        THEN [i \in 1..Len(elems[t]) |-> Without(elems[t][i], PrivateTags)]
        ELSE elems[t]]

\* PadEven, were the identifier never padded.
PadEven_Never(patient_id) == patient_id

\* line 102
PadEven(patient_id) ==
    IF Len(patient_id) % 2 = 0 THEN patient_id ELSE patient_id \o <<" ">>

\* AgeZFill, were the age left as it comes.
AgeZFill_None(s, width) == s

\* line 100: age.zfill(3)
AgeZFill(s, width) == ZFill(s, width)

\* anonymise(d, sex, age, patient_id): d is [elems, meta], two functions from
\* the tags present to their values.  del d[k], d['PatientSex'] and the like
\* raise KeyError when the element is absent; the exception is re-raised.
anonymise(d, sex, age, patient_id) ==
    LET e1 == RemovePrivateTags(d.elems)
        e2 == SetPresent(e1, DATE_FIELDS, FixedDate)
        e3 == SetPresent(e2, TIME_FIELDS, FixedTime)
        e4 == SetPresent(e3, NAME_FIELDS \cup COMMENT_FIELDS, <<>>)
        del5 == PresentKeys(e4, ID_FIELDS)
        e5 == Without(e4, del5)
        e6 == Without(e5, SEQUENCE_FIELDS)
        m1 == Without(d.meta, META_FIELDS)
        age1 == AgeZFill(age, 3) \o <<"Y">>
        sex1 == sex \o <<" ">>
        pid1 == PadEven(patient_id)
    IN  IF /\ del5 \subseteq DOMAIN e4
           /\ {"PatientSex", "PatientAge", "PatientID"} \subseteq DOMAIN e6
        THEN [ok |-> TRUE,
              d |-> [elems |-> [t \in DOMAIN e6 |->
                                   CASE t = "PatientSex" -> sex1
                                     [] t = "PatientAge" -> age1
                                     [] t = "PatientID" -> pid1
                                     [] OTHER -> e6[t]],
                     meta |-> m1]]
        ELSE [ok |-> FALSE, d |-> [elems |-> e6, meta |-> m1]]

\* --------------------------------------------------------------- the inputs
\* args.path
DatasetPath == <<"data">>

RootAX == <<"data", "/", "1", "2", " ", "F", " ", "3", "4", "/", "T2_AX", "/", "DICOM", "/", "EXP00000">>
RootSAG == <<"data", "/", "1", "2", " ", "F", " ", "3", "4", "/", "T2_SAG", "/", "DICOM", "/", "EXP00000">>
RootB == <<"data", "/", "7", " ", "M", " ", "5", "/", "T2_AX", "/", "DICOM", "/", "EXP00000">>
RootBSag == <<"data", "/", "7", " ", "M", " ", "5", "/", "T2_SAG", "/", "DICOM", "/", "EXP00000">>
RootN == <<"data", "/", "s", "/", "T2_AX", "/", "DICOM", "/", "EXP00000">>
\* a directory below a session directory: its path holds EXP00000 too
RootAXSub == RootAX \o <<"/", "s">>
RootOther == <<"data", "/", "7", " ", "M", " ", "5", "/", "T1", "/", "DICOM", "/", "IMG">>

\* Records as dcmread returns them.
RecFull ==
    [elems |-> [t \in {"PatientSex", "PatientAge", "PatientID", "PatientBirthDate",
                       "InstitutionName", "IrradiationEventUID", "Private_0009_0010"} |->
                    CASE t = "PatientSex" -> <<"F">>
                      [] t = "PatientAge" -> <<"0", "3", "4", "Y">>
                      [] t = "PatientID" -> <<"9", "9">>
                      [] t = "PatientBirthDate" -> <<"1", "9", "9", "1", "0", "2", "0", "3">>
                      [] t = "InstitutionName" -> <<"s">>
                      [] t = "IrradiationEventUID" -> <<"1", "2">>
                      [] OTHER -> <<"s">>],
     meta |-> [t \in {"PrivateInformation"} |-> <<"s">>]]

RecNoId ==
    [elems |-> [t \in {"PatientSex", "PatientAge"} |->
                    IF t = "PatientSex" THEN <<"M">> ELSE <<"0", "0", "5", "Y">>],
     meta |-> [t \in {} |-> <<>>]]

FileA == [name |-> <<"a">>, rec |-> RecFull]
FileB == [name |-> <<"b">>, rec |-> RecFull]
FileC == [name |-> <<"c">>, rec |-> RecNoId]
FileP == [name |-> <<"1", " ", "F", " ", "2">>, rec |-> RecFull]
FileQ == [name |-> <<"3", " ", "M", " ", "4">>, rec |-> RecFull]

\* What os.walk can yield: (root, files) in discovery order, the files of a
\* directory in listing order.
Trees ==
    { << [root |-> RootAX, files |-> <<FileB, FileA>>],
         [root |-> RootSAG, files |-> <<FileA>>] >>,
      << [root |-> RootAX, files |-> <<FileA, FileC>>],
         [root |-> RootOther, files |-> <<FileA>>],
         [root |-> RootB, files |-> <<FileB>>],
         [root |-> RootBSag, files |-> <<>>] >>,
      << [root |-> RootN, files |-> <<FileQ, FileP>>],
         [root |-> RootSAG, files |-> <<>>] >>,
      << [root |-> RootAX, files |-> <<FileA>>],
         [root |-> RootAXSub, files |-> <<FileB>>] >> }
\* ------------------------------------------------------ session processor
\* NoFiles, were the test for an empty list never to hold.
NoFiles_Never(files) == FALSE

\* line 127: not files
NoFiles(files) == files = <<>>

\* lines 131-134: new_patient
NewPatient(root, cat, last_directory) ==
    ~(\/ ReSub(<<cat[1]>>, <<cat[2]>>, root) = last_directory
      \/ ReSub(<<cat[2]>>, <<cat[1]>>, root) = last_directory)

\* str(n)
RECURSIVE Decimal(_)
Decimal(n) == IF n < 10 THEN <<DigitChar(n)>> ELSE Decimal(n \div 10) \o <<DigitChar(n % 10)>>

\* line 142: "%04d" % x for x in range(n)
Names(n) == [x \in 1..n |-> ZFill(Decimal(x - 1), 4)]

\* SortFiles, were the files left in listing order.
SortFiles_ListingOrder(files) == files

\* line 144: files.sort() (the walk's file names, ordered as strings)
RECURSIVE SortFiles(_)
SortFiles(files) ==
    IF files = <<>> THEN <<>>
    ELSE LET i == CHOOSE j \in 1..Len(files) :
                     \A k \in 1..Len(files) : ~StrLess(files[k].name, files[j].name)
         IN  <<files[i]>> \o
             SortFiles(SubSeq(files, 1, i - 1) \o SubSeq(files, i + 1, Len(files)))

\* PatientId, were the raw session token left out.
PatientId_NoRaw(date_time, mater_id) == date_time \o <<"M">>

\* line 151
PatientId(date_time, mater_id) == date_time \o mater_id \o <<"M">>

\* lines 154-156
SaveTo(file_path, path, mater_id, patient_id) ==
    CHOOSE save_to \in
        {ReSub(mater_id, patient_id, s2) :
            s2 \in {ReSub(path, <<"Anonymised">>, s1) :
                      s1 \in {ReSubToEnd(<<"DICOM">>, file_path)}}} : TRUE

\* line 158
NewFilePath(save_to, name) == PathJoin(save_to, <<"EXP">> \o name \o <<".dcm">>)

\* NextIdx, were the loop left at the first failure.
NextIdx_Break(idx, n, failed) == IF failed THEN n ELSE idx + 1

\* lines 146, 165: the loop goes on with the next file, failed or not.
NextIdx(idx, n, failed) == idx + 1

\* Caught, were only OSError caught.
Caught_OSErrorOnly(error) == error = "OSError"

\* line 162: except Exception catches whatever a file's processing raises.
Caught(error) == TRUE

\* validate_checksum, were it to let what open, read or dcmread raises through.
validate_checksum_Raising(fate) ==
    IF fate = "invalid" THEN [raised |-> TRUE, value |-> "None"]
    ELSE [raised |-> FALSE, value |-> "hash_val"]

\* lines 113-122: the checksum of the bytes on disk, or None once anything
\* in the try block raises; nothing is raised to the caller.
validate_checksum(fate) ==
    [raised |-> FALSE, value |-> IF fate = "invalid" THEN "None" ELSE "hash_val"]

\* Extend, were each result's list assigned instead of appended.
Extend_LastOnly(results, kind) ==
    IF results = <<>> THEN <<>> ELSE results[Len(results)][kind]

\* lines 188-189: the results' lists of one kind, appended in task order.
RECURSIVE Extend(_, _)
Extend(results, kind) ==
    IF results = <<>> THEN <<>>
    ELSE Head(results)[kind] \o Extend(Tail(results), kind)

\* ------------------------------------------------------------------- state
VARIABLES
    tree,           \* what os.walk yields
    mainpc,         \* main: "walk", "map", "report", "done"
    all_roots,      \* the work items built by the walk
    next,           \* pool.map: the next work item to hand out
    proc,           \* each worker's process_folder locals
    results,        \* pool.map's result list, [done, problematic, empty_dir]
    problematic,    \* main's aggregated lists
    empty_dir,
    reports,        \* problematic_files.json and empty_directories.json
    clock,          \* the second datetime.now() last returned
    makedirs,       \* the os.makedirs calls that went through: [task, dir]
    written,        \* files saved by save_as
    trail,          \* per work item, the files tried so far and how they ended
    hist,           \* per worker, the sessions with files it ran: root and token
    unit            \* anonymise called on its own: its arguments and what it returned

vars == <<tree, mainpc, all_roots, next, proc, results, problematic, empty_dir,
          reports, clock, makedirs, written, trail, hist, unit>>

Idle == [pc |-> "idle"]

Init ==
    /\ tree \in Trees
    /\ mainpc = "walk"
    /\ all_roots = <<>>
    /\ next = 1
    /\ proc = [w \in Workers |-> Idle]
    /\ results = <<>>
    /\ problematic = <<>>
    /\ empty_dir = <<>>
    /\ reports = [written |-> FALSE]
    /\ clock = 0
    /\ makedirs = {}
    /\ written = {}
    /\ trail = <<>>
    /\ hist = [w \in Workers |-> <<>>]
    /\ unit = [returned |-> <<>>]

\* WorkItems, were each work item to carry the directory the walk yielded
\* before it as its last_directory.
WorkItems_CarryPrevious(walk) ==
    SelectSeq([k \in 1..Len(walk) |->
                  [root |-> walk[k].root, files |-> walk[k].files,
                   path |-> DatasetPath, cat |-> <<"T2_AX", "T2_SAG">>,
                   last_directory |-> IF k = 1 THEN <<>> ELSE walk[k - 1].root,
                   last_date_time |-> <<>>]],
              LAMBDA a : Contains(a.root, <<"EXP00000">>))

\* lines 175-181: one work item per directory whose path holds EXP00000,
\* each with an empty last_directory and the empty last_date_time.
RECURSIVE WorkItems(_)
WorkItems(walk) ==
    IF walk = <<>> THEN <<>>
    ELSE (IF Contains(Head(walk).root, <<"EXP00000">>)
          THEN << [root |-> Head(walk).root, files |-> Head(walk).files,
                   path |-> DatasetPath, cat |-> <<"T2_AX", "T2_SAG">>,
                   last_directory |-> <<>>, last_date_time |-> <<>>] >>
          ELSE <<>>) \o WorkItems(Tail(walk))

Walk ==
    /\ mainpc = "walk"
    /\ all_roots' = WorkItems(tree)
    /\ results' = [i \in 1..Len(WorkItems(tree)) |->
                      [done |-> FALSE, problematic |-> <<>>, empty_dir |-> <<>>]]
    /\ trail' = [i \in 1..Len(WorkItems(tree)) |-> <<>>]
    /\ mainpc' = "map"
    /\ UNCHANGED <<tree, next, proc, problematic, empty_dir, reports, clock,
                   makedirs, written, hist, unit>>

\* A free worker takes the next work item and runs process_folder up to the
\* loop (lines 125-144).  The while loop of lines 138-139 ends with the first
\* reading of the clock that differs from last_date_time.
Begin(w) ==
    /\ mainpc = "map"
    /\ proc[w].pc = "idle"
    /\ next <= Len(all_roots)
    /\ next' = next + 1
    /\ LET a == all_roots[next]
       IN  IF NoFiles(a.files)
           THEN /\ results' = [results EXCEPT ![next] =
                       [done |-> TRUE, problematic |-> <<>>, empty_dir |-> <<a.root>>]]
                /\ UNCHANGED <<proc, clock, hist>>
           ELSE LET new_patient == NewPatient(a.root, a.cat, a.last_directory)
                IN  \E t \in clock..MaxClock :
                       /\ IF new_patient
                          THEN TimestampToken(t) # a.last_date_time
                          ELSE t = clock
                       /\ clock' = t
                       /\ LET date_time == IF new_patient THEN TimestampToken(t) ELSE Unbound
                          IN  /\ proc' = [proc EXCEPT ![w] =
                                    [pc |-> "files", task |-> next, root |-> a.root,
                                     files |-> SortFiles(a.files), path |-> a.path,
                                     new_patient |-> new_patient,
                                     date_time |-> date_time,
                                     last_date_time |-> IF new_patient THEN date_time
                                                        ELSE a.last_date_time,
                                     last_directory |-> a.root,
                                     names |-> Names(Len(a.files)),
                                     idx |-> 0,
                                     problematic |-> <<>>, empty_dir |-> <<>>]]
                              /\ hist' = [hist EXCEPT ![w] = Append(@,
                                    [task |-> next, root |-> a.root,
                                     new_patient |-> new_patient,
                                     date_time |-> date_time])]
                       /\ UNCHANGED results
    /\ UNCHANGED <<tree, mainpc, all_roots, problematic, empty_dir, reports,
                   makedirs, written, trail, unit>>

\* What the world does to one file: dcmread fails, os.makedirs fails, save_as
\* fails, the file written does not validate, or all goes well.
Fates == {"load_fails", "mkdir_fails", "save_fails", "invalid", "ok"}

\* One turn of the loop of lines 146-165.  The statements of the try block
\* are bound one after the other; the first one that raises decides error.
ProcessFile(w) ==
    /\ proc[w].pc = "files"
    /\ proc[w].idx < Len(proc[w].files)
    /\ \E fate \in Fates :
       \E file \in {proc[w].files[proc[w].idx + 1]} :
       \E file_path \in {PathJoin(proc[w].root, file.name)} :
       \E x \in {extract_id_sex_age(file_path)} :
       \E patient_id \in {PatientId(proc[w].date_time, x.id)} :
       \E anonym_x \in {anonymise(file.rec, x.sex, x.age, patient_id)} :
       \E save_to \in {SaveTo(file_path, proc[w].path, x.id, patient_id)} :
       \E new_file_path \in {NewFilePath(save_to, proc[w].names[proc[w].idx + 1])} :
        LET p == proc[w]
            upto_save == IF fate = "load_fails" THEN "InvalidDicomError"
                         ELSE IF ~x.ok THEN "AttributeError"
                         ELSE IF p.date_time = Unbound THEN "NameError"
                         ELSE IF ~anonym_x.ok THEN "KeyError"
                         ELSE IF fate \in {"mkdir_fails", "save_fails"} THEN "OSError"
                         ELSE "none"
            made == upto_save = "none" \/ (upto_save = "OSError" /\ fate = "save_fails")
            saved == upto_save = "none"
            error == IF ~saved THEN upto_save
                     ELSE IF validate_checksum(fate).raised THEN "InvalidDicomError"
                     ELSE "none"
            failed == error # "none"
        IN  /\ proc' = [proc EXCEPT
                  ![w].pc = IF failed /\ ~Caught(error) THEN "raised" ELSE @,
                  ![w].idx = NextIdx(p.idx, Len(p.files), failed),
                  ![w].problematic =
                      IF failed /\ Caught(error)
                      THEN Append(@, [path |-> file_path, error |-> error])
                      ELSE @]
            /\ makedirs' = IF made THEN makedirs \cup {[task |-> p.task, dir |-> save_to]}
                           ELSE makedirs
            /\ written' = IF ~saved THEN written
                          ELSE written \cup
                               {[task |-> p.task, idx |-> p.idx, src |-> file_path,
                                 dest |-> new_file_path, d |-> anonym_x.d,
                                 mater_id |-> x.id, date_time |-> p.date_time,
                                 patient_id |-> patient_id,
                                 checksum |-> validate_checksum(fate).value]}
            /\ trail' = [trail EXCEPT ![p.task] =
                            Append(@, [path |-> file_path, failed |-> failed])]
    /\ UNCHANGED <<tree, mainpc, all_roots, next, results, problematic, empty_dir,
                   reports, clock, hist, unit>>

\* lines 167-168
Return(w) ==
    /\ proc[w].pc = "files"
    /\ proc[w].idx >= Len(proc[w].files)
    /\ results' = [results EXCEPT ![proc[w].task] =
            [done |-> TRUE, problematic |-> proc[w].problematic,
             empty_dir |-> proc[w].empty_dir]]
    /\ proc' = [proc EXCEPT ![w] = Idle]
    /\ UNCHANGED <<tree, mainpc, all_roots, next, problematic, empty_dir, reports,
                   clock, makedirs, written, trail, hist, unit>>

\* lines 184-189: pool.map returns once every work item has its result, in
\* work item order; main appends them.
Aggregate ==
    /\ mainpc = "map"
    /\ \A i \in 1..Len(results) : results[i].done
    /\ problematic' = Extend(results, "problematic")
    /\ empty_dir' = Extend(results, "empty_dir")
    /\ mainpc' = "report"
    /\ UNCHANGED <<tree, all_roots, next, proc, results, reports, clock, makedirs,
                   written, trail, hist, unit>>

\* lines 191-196
WriteReports ==
    /\ mainpc = "report"
    /\ reports' = [written |-> TRUE, problematic_files |-> problematic,
                   empty_directories |-> empty_dir]
    /\ mainpc' = "done"
    /\ UNCHANGED <<tree, all_roots, next, proc, results, problematic, empty_dir,
                   clock, makedirs, written, trail, hist, unit>>

Next ==
    \/ Walk
    \/ \E w \in Workers : Begin(w)
    \/ \E w \in Workers : ProcessFile(w)
    \/ \E w \in Workers : Return(w)
    \/ Aggregate
    \/ WriteReports

Spec == Init /\ [][Next]_vars

\* Every worker runs what it has begun, the pool hands out what is left, and
\* main goes on when pool.map returns.
LiveSpec ==
    /\ Spec
    /\ WF_vars(Walk)
    /\ \A w \in Workers : WF_vars(Begin(w)) /\ WF_vars(ProcessFile(w)) /\ WF_vars(Return(w))
    /\ WF_vars(Aggregate)
    /\ WF_vars(WriteReports)

\* ------------------------------------------------- anonymise on its own
MaxApplications == 2

UnitTags ==
    {"PatientBirthDate", "TimeOfLastCalibration", "InstitutionName", "ImageComments",
     "IrradiationEventUID", "RequestAttributesSequence", "ContributingEquipmentSequence",
     "Private_0009_0010", "PatientSex", "PatientAge", "PatientID"}

\* What a file holds under a tag before it is anonymised.  The item of a
\* sequence holds an institution name and a private element.
Original(t) ==
    IF t \in SequenceTags
    THEN << [n \in {"InstitutionName", "Private_0009_0010"} |-> <<"o">>] >>
    ELSE <<"o">>

UnitRecords ==
    {[elems |-> [t \in present |-> Original(t)], meta |-> [t \in header |-> <<"o">>]] :
        present \in SUBSET UnitTags,
        header \in {{"TransferSyntaxUID"}, {"TransferSyntaxUID", "PrivateInformation"}}}

UnitAges == {<<"7">>, <<"4", "5">>, <<"0", "3", "4">>, <<"1", "2", "3", "4">>}

UnitInit ==
    /\ unit \in {[d |-> d, sex |-> sex, age |-> age,
                   patient_id |-> TimestampToken(0) \o <<"1", "2", "M">>,
                   returned |-> <<>>] :
                     d \in UnitRecords, sex \in {<<"F">>, <<"M">>}, age \in UnitAges}
    /\ tree = <<>>
    /\ mainpc = "unit"
    /\ all_roots = <<>>
    /\ next = 1
    /\ proc = [w \in Workers |-> Idle]
    /\ results = <<>>
    /\ problematic = <<>>
    /\ empty_dir = <<>>
    /\ reports = [written |-> FALSE]
    /\ clock = 0
    /\ makedirs = {}
    /\ written = {}
    /\ trail = <<>>
    /\ hist = [w \in Workers |-> <<>>]

\* anonymise is called on the record, or on the record its last call
\* returned, with the same sex, age and identifier.
Anonymise ==
    /\ mainpc = "unit"
    /\ Len(unit.returned) < MaxApplications
    /\ unit.returned # <<>> => unit.returned[Len(unit.returned)].ok
    /\ \E d \in {IF unit.returned = <<>> THEN unit.d
                  ELSE unit.returned[Len(unit.returned)].d} :
          unit' = [unit EXCEPT !.returned =
                      Append(@, anonymise(d, unit.sex, unit.age, unit.patient_id))]
    /\ UNCHANGED <<tree, mainpc, all_roots, next, proc, results, problematic,
                   empty_dir, reports, clock, makedirs, written, trail, hist>>

UnitSpec == UnitInit /\ [][Anonymise]_vars

\* ------------------------------------------------------------------ claims
Tasks == 1..Len(all_roots)

\* The work items that have files and whose invocation has returned.
Returned == {i \in Tasks : results[i].done /\ all_roots[i].files # <<>>}

Outputs(i) == {r \in written : r.task = i}

PatientIDOf(r) == r.d.elems["PatientID"]

\* C1: within one invocation of process_folder, every file successfully
\* written carries the same PatientID.
C1_OnePatientIdPerSession ==
    \A a \in written : \A b \in written :
        a.task = b.task => PatientIDOf(a) = PatientIDOf(b)

\* root a and root b differ only by the category name
CategoryPair(a, b) ==
    /\ a # b
    /\ \/ ReSub(<<"T2_AX">>, <<"T2_SAG">>, b) = a
       \/ ReSub(<<"T2_SAG">>, <<"T2_AX">>, b) = a

\* C2: when one worker processes two directories that differ only by the
\* category name one right after the other, the second is judged the same
\* visit and gets the first one's timestamp token.
C2_CategoryPairSharesToken ==
    \A w \in Workers : \A i \in 1..(Len(hist[w]) - 1) :
        CategoryPair(hist[w][i].root, hist[w][i + 1].root)
            => /\ ~hist[w][i + 1].new_patient
               /\ hist[w][i + 1].date_time = hist[w][i].date_time

\* C3: a token generated for a session judged new differs from the token the
\* same worker generated last.
C3_NewTokenDiffersFromLast ==
    \A w \in Workers : \A i \in 1..(Len(hist[w]) - 1) :
        (hist[w][i].new_patient /\ hist[w][i + 1].new_patient)
            => hist[w][i + 1].date_time # hist[w][i].date_time

\* The sorted position (from 0) of the file at path src among the files of
\* work item i: the number of its files whose name sorts before it.
SortedPosition(i, src) ==
    Cardinality({k \in 1..Len(all_roots[i].files) :
                    StrLess(PathJoin(all_roots[i].root, all_roots[i].files[k].name), src)})

FilePaths(i) ==
    {PathJoin(all_roots[i].root, all_roots[i].files[k].name) :
        k \in 1..Len(all_roots[i].files)}

FailedTurns(i) == {j \in 1..Len(trail[i]) : trail[i][j].failed}

\* C4: a returned invocation on N files has tried all N, each once, in sorted
\* order; with k of them failed it has written N-k files and returns k
\* failure entries, one per failed file with that file's path.
C4_EveryFileTriedFailuresListed ==
    \A i \in Returned :
        LET n == Len(all_roots[i].files)
            k == Cardinality(FailedTurns(i))
            prob == results[i].problematic
        IN  /\ Len(trail[i]) = n
            /\ \A j \in 1..n :
                  /\ trail[i][j].path \in FilePaths(i)
                  /\ SortedPosition(i, trail[i][j].path) = j - 1
            /\ Cardinality(Outputs(i)) = n - k
            /\ Cardinality({r.dest : r \in Outputs(i)}) = n - k
            /\ \A r \in Outputs(i) :
                  \E j \in 1..n : trail[i][j].path = r.src /\ ~trail[i][j].failed
            /\ Len(prob) = k
            /\ \A j \in FailedTurns(i) :
                  Cardinality({m \in 1..Len(prob) : prob[m].path = trail[i][j].path}) = 1

\* a failure is followed, in the same session, by a file that is written
C4_Witness ==
    \E i \in Returned :
        /\ Len(trail[i]) = 2
        /\ trail[i][1].failed
        /\ ~trail[i][2].failed
        /\ Len(results[i].problematic) = 1
        /\ Cardinality(Outputs(i)) = 1

\* "EXP%04d.dcm" for an index below ten
ExpectedName(j) == <<"EXP", "0", "0", "0", DigitChar(j), ".dcm">>

EndsWith(s, t) == Len(s) >= Len(t) /\ SubSeq(s, Len(s) - Len(t) + 1, Len(s)) = t

\* C5 as stated: a returned invocation on N > 0 files leaves exactly N output
\* files, named 0000 .. N-1.
C5_ExactlyNOutputFiles ==
    \A i \in Returned :
        LET n == Len(all_roots[i].files)
        IN  /\ Cardinality({r.dest : r \in Outputs(i)}) = n
            /\ \A j \in 0..(n - 1) :
                  \E r \in Outputs(i) : EndsWith(r.dest, ExpectedName(j))

\* C5 amended: a returned invocation leaves exactly one output file per file
\* that did not fail, the file at sorted position j being named with the
\* zero-padded index j: N files 0000 .. N-1 when none fails, and a gap in
\* the numbering for each file that fails.
C5_OutputNamedBySortedPosition ==
    \A i \in Returned :
        LET n == Len(all_roots[i].files)
        IN  /\ \A r \in Outputs(i) :
                  /\ r.src \in FilePaths(i)
                  /\ EndsWith(r.dest, ExpectedName(SortedPosition(i, r.src)))
            /\ \A j \in 1..n :
                  Cardinality({r \in Outputs(i) : r.src = trail[i][j].path})
                      = IF trail[i][j].failed THEN 0 ELSE 1
            /\ FailedTurns(i) = {} =>
                  /\ Cardinality({r.dest : r \in Outputs(i)}) = n
                  /\ \A j \in 0..(n - 1) :
                        \E r \in Outputs(i) : EndsWith(r.dest, ExpectedName(j))

\* the first file in sorted order failed and the second is written as 0001
C5_Witness ==
    \E i \in Returned :
        /\ Len(trail[i]) = 2
        /\ trail[i][1].failed
        /\ \E r \in Outputs(i) :
              /\ SortedPosition(i, r.src) = 1
              /\ EndsWith(r.dest, ExpectedName(1))

\* C6: whatever files fail, the batch reaches the state where both reports
\* are written.
C6_BatchCompletes == <>(mainpc = "done" /\ reports.written)

\* the batch is complete although files failed in two sessions
C6_Witness ==
    /\ mainpc = "done"
    /\ reports.written
    /\ \E i \in Tasks : \E j \in Tasks : i # j /\ FailedTurns(i) # {} /\ FailedTurns(j) # {}

\* every failed turn of every work item, as <<work item, turn>>
AllFailures == UNION {{<<i, j>> : j \in FailedTurns(i)} : i \in Tasks}

EmptyTasks == {i \in Tasks : all_roots[i].files = <<>>}

Count(seq, x) == Cardinality({m \in 1..Len(seq) : seq[m] = x})

\* C7: the failure report holds each failure entry the invocations returned,
\* one per failed file, once, and nothing else; the empty-directory report
\* holds each empty session directory once, and nothing else.
C7_ReportsHoldEveryEntryOnce ==
    reports.written =>
        LET prob == reports.problematic_files
            emp == reports.empty_directories
        IN  /\ Len(prob) = Cardinality(AllFailures)
            /\ \A f \in AllFailures :
                  Cardinality({m \in 1..Len(prob) :
                                  prob[m].path = trail[f[1]][f[2]].path}) = 1
            /\ \A i \in Tasks : \A m \in 1..Len(results[i].problematic) :
                  Count(prob, results[i].problematic[m]) = 1
            /\ Len(emp) = Cardinality(EmptyTasks)
            /\ \A i \in EmptyTasks : Count(emp, all_roots[i].root) = 1

\* both reports are written, with failures of two sessions and an empty one
C7_Witness ==
    /\ reports.written
    /\ \E i \in Tasks : \E j \in Tasks : i # j /\ FailedTurns(i) # {} /\ FailedTurns(j) # {}
    /\ Len(reports.problematic_files) >= 2
    /\ Len(reports.empty_directories) = 1

\* C8: an invocation on a directory without files returns that directory as
\* the only empty-directory entry and no failure, and has generated no
\* token, made no directory, tried and written no file; an invocation on a
\* directory with files returns no empty-directory entry.
C8_EmptySessionOnlyReported ==
    \A i \in Tasks :
        results[i].done =>
            IF all_roots[i].files = <<>>
            THEN /\ results[i].empty_dir = <<all_roots[i].root>>
                 /\ results[i].problematic = <<>>
                 /\ trail[i] = <<>>
                 /\ Outputs(i) = {}
                 /\ \A m \in makedirs : m.task # i
                 /\ \A w \in Workers : \A h \in 1..Len(hist[w]) : hist[w][h].task # i
            ELSE results[i].empty_dir = <<>>

\* an empty directory and a directory with files have both returned
C8_Witness ==
    /\ \E i \in EmptyTasks : results[i].done /\ results[i].empty_dir = <<all_roots[i].root>>
    /\ \E j \in Returned : Outputs(j) # {}

C10_DifferentRawTokenDifferentId ==
    \A a \in written : \A b \in written :
        a.mater_id # b.mater_id => PatientIDOf(a) # PatientIDOf(b)

\* two sessions with different raw session tokens got the same timestamp token
C10_Witness ==
    \E a \in written : \E b \in written :
        /\ a.task # b.task
        /\ a.mater_id # b.mater_id
        /\ a.date_time = b.date_time

\* The fields of one record (or of one item of a sequence) hold nothing of
\* a redaction category as it came.
Redacted(f) ==
    \A t \in DOMAIN f :
        /\ t \in DATE_FIELDS => f[t] = FixedDate
        /\ t \in TIME_FIELDS => f[t] = FixedTime
        /\ t \in NAME_FIELDS \cup COMMENT_FIELDS => f[t] = <<>>
        /\ t \notin ID_FIELDS \cup SEQUENCE_FIELDS \cup PrivateTags

FirstReturn == unit.returned[1]

\* C11: after anonymise has returned, no field of a redaction category keeps
\* its content: date, time, name and comment fields that were present are
\* present with the fixed or the empty value, identifier, sequence and the
\* listed file-meta fields are absent, and no private field remains; this
\* in the record and in the items of the sequences it still holds.
C11_NoRedactionFieldKeepsContent ==
    (unit.returned # <<>> /\ FirstReturn.ok) =>
        LET out == FirstReturn.d
            kept == DATE_FIELDS \cup TIME_FIELDS \cup NAME_FIELDS \cup COMMENT_FIELDS
        IN  /\ Redacted(out.elems)
            /\ DOMAIN unit.d.elems \cap kept = DOMAIN out.elems \cap kept
            /\ DOMAIN out.meta \cap META_FIELDS = {}
            /\ \A t \in DOMAIN out.elems \cap SequenceTags :
                  \A i \in 1..Len(out.elems[t]) : Redacted(out.elems[t][i])

\* C12: anonymise applied with the same arguments to a record it returned
\* raises nothing and returns the record unchanged.
C12_SecondApplicationChangesNothing ==
    \A k \in 2..Len(unit.returned) :
        /\ unit.returned[k].ok
        /\ unit.returned[k].d = unit.returned[k - 1].d

\* a record with a field of every category has been anonymised twice
C12_Witness ==
    /\ Len(unit.returned) = 2
    /\ unit.returned[2].ok
    /\ UnitTags \subseteq DOMAIN unit.d.elems
    /\ "PrivateInformation" \in DOMAIN unit.d.meta
    /\ unit.returned[1].d # unit.d

PatientTags == {"PatientSex", "PatientAge", "PatientID"}

\* C13: anonymise on a record that lacks PatientSex, PatientAge or PatientID
\* returns without error a record that holds all three.
C13_MissingPatientFieldsCreated ==
    (unit.returned # <<>> /\ ~(PatientTags \subseteq DOMAIN unit.d.elems)) =>
        /\ FirstReturn.ok
        /\ PatientTags \subseteq DOMAIN FirstReturn.d.elems

EntriesFor(src) ==
    UNION {{<<"proc", w, m>> : m \in {n \in 1..Len(proc[w].problematic) :
                                         proc[w].problematic[n].path = src}} :
              w \in {v \in Workers : proc[v].pc # "idle"}}
    \cup UNION {{<<"results", i, m>> : m \in {n \in 1..Len(results[i].problematic) :
                                               results[i].problematic[n].path = src}} :
                  i \in Tasks}
    \cup {<<"main", m>> : m \in {n \in 1..Len(problematic) : problematic[n].path = src}}

\* C14: a file whose write succeeded and whose validation then failed is in
\* no failure list, and its session goes on: its turn is not a failed one,
\* the worker goes on with the loop, and the returned session has tried
\* every one of its files.
C14_ValidationFailureNotReported ==
    \A r \in written :
        r.checksum = "None" =>
            /\ EntriesFor(r.src) = {}
            /\ Len(trail[r.task]) > r.idx
            /\ trail[r.task][r.idx + 1] = [path |-> r.src, failed |-> FALSE]
            /\ \A w \in Workers :
                  (proc[w].pc # "idle" /\ proc[w].task = r.task)
                      => proc[w].pc = "files" /\ proc[w].idx > r.idx
            /\ results[r.task].done
                  => Len(trail[r.task]) = Len(all_roots[r.task].files)

\* the first file of a session did not validate, the second was written
\* after it, and the reports are there
C14_Witness ==
    /\ reports.written
    /\ \E r \in written : \E q \in written :
          /\ r.task = q.task
          /\ r.idx = 0 /\ q.idx = 1
          /\ r.checksum = "None"
          /\ q.checksum = "hash_val"

\* the orders in which a listing can present the files of work item i
ListingOrders(i) ==
    LET f == all_roots[i].files
    IN  {[k \in 1..Len(f) |-> f[p[k]]] : p \in Permutations(1..Len(f))}

\* C16: whatever order the files of a session are listed in, process_folder
\* goes through them in the same order, so a file gets the same index in
\* every such run; and a file written has the index and the name of its
\* sorted position, whichever other files of the session failed.
C16_IndexFromSortedPositionOnly ==
    /\ \A w \in Workers :
          proc[w].pc = "files" =>
              \A q \in ListingOrders(proc[w].task) : SortFiles(q) = proc[w].files
    /\ \A r \in written :
          /\ r.idx = SortedPosition(r.task, r.src)
          /\ EndsWith(r.dest, <<"EXP">> \o ZFill(Decimal(r.idx), 4) \o <<".dcm">>)
          /\ \A j \in 1..Len(trail[r.task]) :
                trail[r.task][j].path = r.src => j = r.idx + 1

\* a session listed out of sorted order: the file listed last is written
\* with index 0, and the file listed first, tried after it, fails
C16_Witness ==
    \E i \in Returned :
        LET f == all_roots[i].files
        IN  /\ Len(f) = 2
            /\ StrLess(f[2].name, f[1].name)
            /\ \E r \in Outputs(i) :
                  /\ r.src = PathJoin(all_roots[i].root, f[2].name)
                  /\ r.idx = 0
            /\ trail[i][2] = [path |-> PathJoin(all_roots[i].root, f[1].name),
                               failed |-> TRUE]

\* the failure entries, wherever they are kept, that record error
EntriesWith(error) ==
    UNION {{<<"proc", w, m>> : m \in {n \in 1..Len(proc[w].problematic) :
                                         proc[w].problematic[n].error = error}} :
              w \in {v \in Workers : proc[v].pc # "idle"}}
    \cup UNION {{<<"results", i, m>> : m \in {n \in 1..Len(results[i].problematic) :
                                               results[i].problematic[n].error = error}} :
                  i \in Tasks}

\* C17: every work item main builds carries an empty last_directory and an
\* empty last_date_time; every invocation on a session with files judges it
\* new and has its timestamp token, twelve digits, before its first file;
\* no file fails for want of a token.
C17_TokenDefinedBeforeFirstFile ==
    /\ \A i \in Tasks :
          all_roots[i].last_directory = <<>> /\ all_roots[i].last_date_time = <<>>
    /\ \A w \in Workers :
          /\ proc[w].pc = "files" =>
                /\ proc[w].new_patient
                /\ proc[w].date_time # Unbound
                /\ Len(proc[w].date_time) = 12
                /\ \A k \in 1..12 : proc[w].date_time[k] \in Digits
          /\ \A k \in 1..Len(hist[w]) :
                hist[w][k].new_patient /\ hist[w][k].date_time # Unbound
    /\ EntriesWith("NameError") = {}

\* one worker has run the two category directories of one visit one right
\* after the other, has judged both new, and has written a file of the second
C17_Witness ==
    \E w \in Workers : \E k \in 1..(Len(hist[w]) - 1) :
        /\ CategoryPair(hist[w][k].root, hist[w][k + 1].root)
        /\ hist[w][k + 1].new_patient
        /\ hist[w][k + 1].date_time # Unbound
        /\ \E r \in written :
              r.task = hist[w][k + 1].task /\ r.date_time = hist[w][k + 1].date_time

\* C18: across the batch, no two distinct source files are written to the
\* same destination path.
C18_NoTwoSourcesOneDestination ==
    \A a \in written : \A b \in written :
        a.src # b.src => a.dest # b.dest
====
